---- MODULE Spec2Model ----
(***************************************************************************)
(* SpeakWell backend (backend/main.py): text normalisation, word-level     *)
(* evaluation of a transcript against an expected phrase, the phrase       *)
(* catalog and the /transcribe request handler.                            *)
(*                                                                         *)
(* A Python str is a sequence of characters; a character is a one-element  *)
(* TLA+ string, or the name of its code point ("U+03D2") for the           *)
(* characters outside ASCII that str.lower() treats specially.             *)
(* overall_score is a float with one decimal: it is held in tenths         *)
(* (66.7 is 667, 100.0 is 1000).                                           *)
(***************************************************************************)
EXTENDS Integers, Sequences, FiniteSets, TLC

VARIABLES
    \* one run of normalize_text, and of normalize_text on its own output
    text, normalized, renormalized, npc,
    \* one run of evaluate_words, and a second run on another transcript
    transcribed, expected, evaluations, other, evaluations2, epc,
    \* the server: the module-level catalog and the requests in flight
    catalog, pc, request, transcription, raised, response

nvars == <<text, normalized, renormalized, npc>>
evars == <<transcribed, expected, evaluations, other, evaluations2, epc>>
svars == <<catalog, pc, request, transcription, raised, response>>
vars == <<nvars, evars, svars>>

----------------------------------------------------------------------------
(* Bounds *)

\* longest input string of normalize_text
MaxLen == 4
\* longest transcript and expected phrase of evaluate_words
MaxPhraseLen == 3
\* longest expected phrase of /transcribe
MaxExpectedLen == 5
\* number of requests in flight at once
NumRequests == 2
\* largest phrase id asked of /phrases/{id}, besides 999
MaxPhraseId == 11

----------------------------------------------------------------------------
(* Characters *)

\* "A" has the lowercase "a"; "U+03D2" (GREEK UPSILON WITH HOOK SYMBOL) is an
\* uppercase letter (category Lu, isupper() is true) with no lowercase
\* mapping; "U+0130" (LATIN CAPITAL LETTER I WITH DOT ABOVE) lowers to the
\* two characters "i" and "U+0307" (COMBINING DOT ABOVE, a mark, not \w).
UpperLetters == {"A", "B", "U+03D2", "U+0130"}
LowerLetters == {"a", "b", "i"}
Digits == {"1"}
Whitespace == {" ", "\t"}
Apostrophe == "'"
Underscore == "_"
OtherPunctuation == {",", "?"}
Marks == {"U+0307"}

\* the characters normalize_text is run on
NormAlphabet == {"A", "a", "_", " ", "\t", "'", ",", "U+03D2", "U+0130"}
\* the characters of transcripts and expected phrases
PhraseAlphabet == {"a", "B", " "}

RECURSIVE StringsOfLen(_, _)
StringsOfLen(A, n) ==
    IF n = 0 THEN {<<>>}
    ELSE {<<c>> \o s : c \in A, s \in StringsOfLen(A, n - 1)}

StringsUpTo(A, n) == UNION {StringsOfLen(A, k) : k \in 0..n}

NormInputs == StringsUpTo(NormAlphabet, MaxLen)
\* the transcripts and expected phrases of evaluate_words
Texts == StringsUpTo(PhraseAlphabet, MaxPhraseLen)
\* the expected phrases of /transcribe
ExpectedPhrases == StringsUpTo(PhraseAlphabet, MaxExpectedLen)

Range(s) == {s[i] : i \in DOMAIN s}

----------------------------------------------------------------------------
(* normalize_text *)

\* str.lower() on one character: the lowercase mapping, the character itself
\* when it has none
LowerChar(c) ==
    CASE c = "A" -> <<"a">>
      [] c = "B" -> <<"b">>
      [] c = "U+0130" -> <<"i", "U+0307">>
      [] OTHER -> <<c>>

\* text.lower()
RECURSIVE lower(_)
lower(s) == IF s = <<>> THEN <<>> ELSE LowerChar(Head(s)) \o lower(Tail(s))

\* \w: letters, digits and the underscore
IsWordChar(c) ==
    c \in UpperLetters \cup LowerLetters \cup Digits \cup {Underscore}

\* \s, and the separators of str.split()
IsSpace(c) == c \in Whitespace

\* the characters re.sub(r"[^\w\s']", "", text) keeps
Kept(c) == IsWordChar(c) \/ IsSpace(c) \/ c = Apostrophe

\* re.sub(r"[^\w\s']", "", text)
remove_punctuation(s) == SelectSeq(s, Kept)

\* text.split(): the maximal runs of non-whitespace characters, in order
RECURSIVE SplitFrom(_, _)
SplitFrom(s, word) ==
    IF s = <<>> THEN (IF word = <<>> THEN <<>> ELSE <<word>>)
    ELSE IF IsSpace(Head(s))
         THEN (IF word = <<>> THEN <<>> ELSE <<word>>) \o SplitFrom(Tail(s), <<>>)
         ELSE SplitFrom(Tail(s), Append(word, Head(s)))

split(s) == SplitFrom(s, <<>>)

\* " ".join(words)
RECURSIVE join(_)
join(words) ==
    IF words = <<>> THEN <<>>
    ELSE IF Len(words) = 1 THEN words[1]
    ELSE words[1] \o <<" ">> \o join(Tail(words))

\* a slip in the order of the steps: whitespace collapsed before the
\* punctuation is removed
normalize_text_collapse_first(s) == remove_punctuation(join(split(lower(s))))

\* a slip: the lowercasing step left out
normalize_text_no_lower(s) == join(split(remove_punctuation(s)))

normalize_text(s) == join(split(remove_punctuation(lower(s))))

----------------------------------------------------------------------------
(* One run of normalize_text *)

NormInit ==
    /\ text \in NormInputs
    /\ normalized = <<>>
    /\ renormalized = <<>>
    /\ npc = "start"

Normalize ==
    /\ npc = "start"
    /\ normalized' = normalize_text(text)
    /\ npc' = "once"
    /\ UNCHANGED <<text, renormalized, evars, svars>>

Renormalize ==
    /\ npc = "once"
    /\ renormalized' = normalize_text(normalized)
    /\ npc' = "twice"
    /\ UNCHANGED <<text, normalized, evars, svars>>

NormNext == Normalize \/ Renormalize

----------------------------------------------------------------------------
(* evaluate_words *)

\* expected_word in transcribed_words
Contains(words, w) == \E j \in DOMAIN words : words[j] = w

\* a slip: each transcribed word satisfies one expected word only
RECURSIVE EvaluateConsuming(_, _)
EvaluateConsuming(expected_words, remaining) ==
    IF expected_words = <<>> THEN <<>>
    ELSE LET w == Head(expected_words)
             hit == Contains(remaining, w)
             k == IF hit THEN CHOOSE j \in DOMAIN remaining : remaining[j] = w
                  ELSE 0
             rest == IF hit
                     THEN SubSeq(remaining, 1, k - 1)
                          \o SubSeq(remaining, k + 1, Len(remaining))
                     ELSE remaining
         IN  <<[word |-> w, correct |-> hit]>>
             \o EvaluateConsuming(Tail(expected_words), rest)

evaluate_words_consuming(t, e) ==
    EvaluateConsuming(split(normalize_text(e)), split(normalize_text(t)))

\* a slip: the expected word compared with the transcribed word at its place
evaluate_words_positional(t, e) ==
    LET transcribed_words == split(normalize_text(t))
        expected_words == split(normalize_text(e))
    IN  [i \in 1..Len(expected_words) |->
            [word |-> expected_words[i],
             correct |-> /\ i <= Len(transcribed_words)
                         /\ transcribed_words[i] = expected_words[i]]]

evaluate_words(t, e) ==
    LET transcribed_words == split(normalize_text(t))
        expected_words == split(normalize_text(e))
    IN  [i \in 1..Len(expected_words) |->
            [word |-> expected_words[i],
             correct |-> Contains(transcribed_words, expected_words[i])]]

----------------------------------------------------------------------------
(* One run of evaluate_words, then a run on another transcript with the    *)
(* same normalized words in another order or another number of times       *)

TokenSet(s) == Range(split(normalize_text(s)))

\* the normalized words of each transcript, computed once
TokenSets == [s \in Texts |-> TokenSet(s)]

EvalInit ==
    /\ transcribed \in Texts
    /\ expected \in Texts
    /\ evaluations = <<>>
    /\ other = <<>>
    /\ evaluations2 = <<>>
    /\ epc = "start"

Evaluate ==
    /\ epc = "start"
    /\ evaluations' = evaluate_words(transcribed, expected)
    /\ epc' = "evaluated"
    /\ UNCHANGED <<transcribed, expected, other, evaluations2, nvars, svars>>

EvaluateOther ==
    /\ epc = "evaluated"
    /\ \E t2 \in Texts :
          /\ TokenSets[t2] = TokenSets[transcribed]
          /\ other' = t2
          /\ evaluations2' = evaluate_words(t2, expected)
    /\ epc' = "compared"
    /\ UNCHANGED <<transcribed, expected, evaluations, nvars, svars>>

EvalNext == Evaluate \/ EvaluateOther

----------------------------------------------------------------------------
(* The phrase catalog *)

PORTUGUESE_PHRASES == <<
    [id |-> 1, phrase |-> "Olá, como vai?", translation |-> "Hello, how are you?"],
    [id |-> 2, phrase |-> "Bom dia", translation |-> "Good morning"],
    [id |-> 3, phrase |-> "Obrigado", translation |-> "Thank you"],
    [id |-> 4, phrase |-> "Por favor", translation |-> "Please"],
    [id |-> 5, phrase |-> "Como se chama?", translation |-> "What is your name?"],
    [id |-> 6, phrase |-> "Muito prazer", translation |-> "Nice to meet you"],
    [id |-> 7, phrase |-> "Até logo", translation |-> "See you later"],
    [id |-> 8, phrase |-> "Boa noite", translation |-> "Good night"],
    [id |-> 9, phrase |-> "Eu não entendo", translation |-> "I don't understand"],
    [id |-> 10, phrase |-> "Você fala inglês?", translation |-> "Do you speak English?"] >>

\* HTTPException(status_code=404, detail="Phrase not found")
PhraseNotFound == [status |-> 404, detail |-> "Phrase not found"]

\* a 200 response with its payload
Ok(body) == [status |-> 200, body |-> body]

\* a slip: the id used as a position in the list
get_phrase_by_position(phrases, phrase_id) ==
    IF phrase_id \in 0..(Len(phrases) - 1) THEN Ok(phrases[phrase_id + 1])
    ELSE PhraseNotFound

\* the loop of get_phrase: the first entry with the id, else 404
RECURSIVE get_phrase(_, _)
get_phrase(phrases, phrase_id) ==
    IF phrases = <<>> THEN PhraseNotFound
    ELSE IF Head(phrases).id = phrase_id THEN Ok(Head(phrases))
    ELSE get_phrase(Tail(phrases), phrase_id)

\* get_phrases
get_phrases(phrases) == Ok(phrases)

----------------------------------------------------------------------------
(* transcribe_audio *)

\* the texts the provider answers with: no word, one of the words, both in
\* either order, one repeated, with punctuation
ProviderTexts ==
    {<<>>, <<"a">>, <<"B">>, <<"a", " ", "B">>, <<"B", ",", " ", "a">>,
     <<"a", " ", "a">>, <<"?">>}

\* what elevenlabs.speech_to_text.convert does: it returns an object with a
\* text attribute, an object without one (whose str() is the text), an object
\* whose text is None, or it raises
ProviderAnswers(texts) ==
    [kind : {"text", "object"}, text : texts]
    \cup {[kind |-> "none_text", text |-> <<>>], [kind |-> "raise", text |-> <<>>]}

NoAnswer == [kind |-> "not_called", text |-> <<>>]

\* transcription.text if hasattr(transcription, 'text') else str(transcription):
\* the text field of an answer of kind "object" holds its str()
transcribed_text(answer) == answer.text

\* sum(1 for eval in word_evaluations if eval.correct)
correct_count(word_evaluations) ==
    Cardinality({i \in DOMAIN word_evaluations : word_evaluations[i].correct})

\* round(x, 1) of x = num / den, in tenths: the nearest tenth, a tie to the
\* even one
round1(num, den) ==
    LET q == (10 * num) \div den
        rem == (10 * num) % den
    IN  IF 2 * rem < den THEN q
        ELSE IF 2 * rem > den THEN q + 1
        ELSE IF q % 2 = 0 THEN q ELSE q + 1

\* a slip: the score cut to one decimal, not rounded
overall_score_truncated(correct, total) ==
    IF total > 0 THEN (1000 * correct) \div total ELSE 0

\* round((correct_count / total_count * 100) if total_count > 0 else 0, 1),
\* in tenths
overall_score(correct, total) ==
    IF total > 0 THEN round1(correct * 100, total) ELSE 0

\* a slip: all_correct taken from a positive count
all_correct_some(correct, total) == correct > 0

\* correct_count == total_count
all_correct(correct, total) == correct = total

\* the TranscriptionResponse of lines 157-171
TranscriptionResponse(text_, expected_phrase) ==
    LET word_evaluations == evaluate_words(text_, expected_phrase)
        correct == correct_count(word_evaluations)
        total == Len(word_evaluations)
    IN  [transcribed_text |-> text_,
         expected_phrase |-> expected_phrase,
         word_evaluations |-> word_evaluations,
         overall_score |-> overall_score(correct, total),
         all_correct |-> all_correct(correct, total)]

\* the step of the try block that raises, if one does: audio.read(), the
\* provider call, or text.lower() on a text that is None
RaisingStep(audio_ok, answer) ==
    IF ~audio_ok THEN "read"
    ELSE IF answer.kind = "raise" THEN "provider"
    ELSE IF answer.kind = "none_text" THEN "evaluate"
    ELSE "none"

\* a slip: a failure answered as a success with what there is so far
TranscriptionFailedPartial(e) ==
    [status |-> 200, body |-> [transcribed_text |-> <<>>, error |-> e]]

\* HTTPException(status_code=500, detail=f"Transcription failed: {str(e)}"),
\* e the exception, named by the step that raised it
TranscriptionFailed(e) ==
    [status |-> 500, detail |-> <<"Transcription failed: ", e>>]

\* a slip: the expected phrase kept in a module-level variable that the
\* first request in flight sets
expected_phrase_shared(r) == request[1].expected_phrase

\* the expected_phrase form field of request r
expected_phrase_of(r) == request[r].expected_phrase

\* the outcome of the try block of transcribe_audio
TranscribeOutcome(expected_phrase, audio_ok, answer) ==
    IF RaisingStep(audio_ok, answer) # "none"
    THEN TranscriptionFailed(RaisingStep(audio_ok, answer))
    ELSE Ok(TranscriptionResponse(transcribed_text(answer), expected_phrase))

----------------------------------------------------------------------------
(* The server: requests in flight *)

Requests == 1..NumRequests

NoRequest == [kind |-> "none", expected_phrase |-> <<>>, phrase_id |-> 0]
NoResponse == [status |-> 0]

\* the phrase ids asked for
PhraseIds == (0..MaxPhraseId) \cup {999}

\* the expected phrases and provider texts of the concurrent requests
ServerPhrases == {<<"a">>, <<"B", " ", "a">>}

\* the provider's answers to the concurrent requests
ServerAnswers ==
    {a \in ProviderAnswers(ServerPhrases) : a.kind \in {"text", "raise"}}

ServerInit ==
    /\ catalog = PORTUGUESE_PHRASES
    /\ pc = [r \in Requests |-> "idle"]
    /\ request = [r \in Requests |-> NoRequest]
    /\ transcription = [r \in Requests |-> NoAnswer]
    /\ raised = [r \in Requests |-> "none"]
    /\ response = [r \in Requests |-> NoResponse]

\* GET /phrases
GetPhrases(r) ==
    /\ pc[r] = "idle"
    /\ request' = [request EXCEPT ![r] = [NoRequest EXCEPT !.kind = "phrases"]]
    /\ response' = [response EXCEPT ![r] = get_phrases(catalog)]
    /\ pc' = [pc EXCEPT ![r] = "done"]
    /\ UNCHANGED <<catalog, transcription, raised, nvars, evars>>

\* GET /phrases/{phrase_id}
GetPhrase(r, phrase_id) ==
    /\ pc[r] = "idle"
    /\ request' = [request EXCEPT ![r] =
                      [NoRequest EXCEPT !.kind = "phrase", !.phrase_id = phrase_id]]
    /\ response' = [response EXCEPT ![r] = get_phrase(catalog, phrase_id)]
    /\ pc' = [pc EXCEPT ![r] = "done"]
    /\ UNCHANGED <<catalog, transcription, raised, nvars, evars>>

\* POST /transcribe, up to the await of audio.read()
TranscribeStart(r, expected_phrase) ==
    /\ pc[r] = "idle"
    /\ request' = [request EXCEPT ![r] =
                      [NoRequest EXCEPT !.kind = "transcribe",
                                        !.expected_phrase = expected_phrase]]
    /\ pc' = [pc EXCEPT ![r] = "reading"]
    /\ UNCHANGED <<catalog, transcription, raised, response, nvars, evars>>

\* POST /transcribe, from the result of audio.read() to the response: the
\* provider call is synchronous, so nothing runs in between. audio_ok is
\* whether audio.read() returned; the provider is called only if it did
TranscribeFinish(r, audio_ok, answer) ==
    /\ pc[r] = "reading"
    /\ transcription' = [transcription EXCEPT ![r] = answer]
    /\ raised' = [raised EXCEPT ![r] = RaisingStep(audio_ok, answer)]
    /\ response' = [response EXCEPT ![r] =
                       TranscribeOutcome(expected_phrase_of(r), audio_ok, answer)]
    /\ pc' = [pc EXCEPT ![r] = "done"]
    /\ UNCHANGED <<catalog, request, nvars, evars>>

ServerNext ==
    \E r \in Requests :
        \/ GetPhrases(r)
        \/ \E phrase_id \in PhraseIds : GetPhrase(r, phrase_id)
        \/ \E e \in ServerPhrases : TranscribeStart(r, e)
        \/ TranscribeFinish(r, FALSE, NoAnswer)
        \/ \E answer \in ServerAnswers : TranscribeFinish(r, TRUE, answer)

\* one /transcribe request, over every expected phrase and provider text
TranscribeNext ==
    \/ \E e \in ExpectedPhrases : TranscribeStart(1, e)
    \/ TranscribeFinish(1, FALSE, NoAnswer)
    \/ \E answer \in ProviderAnswers(ProviderTexts) :
          TranscribeFinish(1, TRUE, answer)

----------------------------------------------------------------------------
(* Specifications *)

NormIdle ==
    text = <<>> /\ normalized = <<>> /\ renormalized = <<>> /\ npc = "off"

EvalIdle ==
    /\ transcribed = <<>> /\ expected = <<>> /\ evaluations = <<>>
    /\ other = <<>> /\ evaluations2 = <<>> /\ epc = "off"

\* the server not started
ServerOff ==
    /\ catalog = <<>> /\ pc = <<>> /\ request = <<>>
    /\ transcription = <<>> /\ raised = <<>> /\ response = <<>>

InitNorm == NormInit /\ EvalIdle /\ ServerOff
InitEval == EvalInit /\ NormIdle /\ ServerOff
Init == ServerInit /\ NormIdle /\ EvalIdle

\* normalize_text on every input
SpecNorm == InitNorm /\ [][NormNext]_vars

\* evaluate_words on every pair of inputs
SpecEval == InitEval /\ [][EvalNext]_vars

\* one /transcribe request, over every expected phrase and provider answer
SpecTranscribe == Init /\ [][TranscribeNext]_vars

\* concurrent requests
Next == ServerNext
Spec == Init /\ [][Next]_vars

----------------------------------------------------------------------------
(* Properties of normalize_text, under SpecNorm *)

\* C6: normalize_text is idempotent: normalizing the output of normalize_text
\* again gives the same string.
C6_Idempotent == npc = "twice" => renormalized = normalized

\* an input whose normalization lowers, removes and collapses, normalized twice
C6_Witness ==
    /\ npc = "twice"
    /\ text = <<"U+0130", ",", "\t", "A">>
    /\ normalized = <<"i", " ", "a">>
    /\ renormalized = normalized

\* the output is made of single-spaced words: no whitespace but the space, no
\* space first or last, no two spaces in a row
SingleSpaced(s) ==
    /\ \A i \in DOMAIN s : IsSpace(s[i]) => s[i] = " "
    /\ s # <<>> => (s[1] # " " /\ s[Len(s)] # " ")
    /\ \A i \in 1..(Len(s) - 1) : ~(s[i] = " " /\ s[i + 1] = " ")

NotSpace(c) == ~IsSpace(c)
WordOrApostrophe(c) == IsWordChar(c) \/ c = Apostrophe

\* the output is the lowercased input without the removed characters, its
\* words in order and whitespace runs collapsed
LoweredAndStripped ==
    /\ SelectSeq(normalized, NotSpace) = SelectSeq(lower(text), WordOrApostrophe)
    /\ split(normalized) = split(SelectSeq(lower(text), Kept))
    /\ SingleSpaced(normalized)

----------------------------------------------------------------------------
(* Properties of evaluate_words, under SpecEval *)

\* C1: evaluate_words returns one WordEvaluation per token of the normalized
\* expected string, in order, with word the token and correct true exactly
\* when the token is among the tokens of the normalized transcript; matching
\* does not consume, so one transcribed token satisfies every occurrence.
C1_EvaluateWords ==
    epc # "start" =>
        LET tokens == split(normalize_text(expected))
            heard == Range(split(normalize_text(transcribed)))
        IN  /\ Len(evaluations) = Len(tokens)
            /\ \A i \in 1..Len(tokens) :
                  /\ evaluations[i].word = tokens[i]
                  /\ evaluations[i].correct <=> tokens[i] \in heard

\* expected "a a" against transcribed "a": two evaluations, both correct
C1_Witness ==
    /\ epc = "evaluated"
    /\ expected = <<"a", " ", "a">>
    /\ transcribed = <<"a">>
    /\ evaluations = <<[word |-> <<"a">>, correct |-> TRUE],
                       [word |-> <<"a">>, correct |-> TRUE]>>

\* C8: two transcripts whose normalized tokens are the same up to order and
\* number of repetitions get the same evaluations against every expected
\* phrase.
C8_OrderAndMultiplicity == epc = "compared" => evaluations2 = evaluations

\* expected "B a" against "a B" and against "B a": both words correct
C8_Witness ==
    /\ epc = "compared"
    /\ expected = <<"B", " ", "a">>
    /\ transcribed = <<"a", " ", "B">>
    /\ other = <<"B", " ", "a">>
    /\ evaluations2 = <<[word |-> <<"b">>, correct |-> TRUE],
                        [word |-> <<"a">>, correct |-> TRUE]>>

----------------------------------------------------------------------------
(* Properties of the responses of /transcribe, under SpecTranscribe *)

\* request r is a /transcribe request answered with a TranscriptionResponse
Returned(r) ==
    /\ pc[r] = "done"
    /\ request[r].kind = "transcribe"
    /\ response[r].status = 200

Abs(x) == IF x < 0 THEN -x ELSE x

AllExpectedHeard(r) ==
    Range(split(normalize_text(request[r].expected_phrase)))
        \subseteq Range(split(normalize_text(response[r].body.transcribed_text)))

\* C3 as stated: if every token of the normalized expected phrase is among
\* the tokens of the normalized transcript, the response has all_correct
\* true and overall_score 100.0.
C3_AsStated ==
    \A r \in Requests : (Returned(r) /\ AllExpectedHeard(r)) =>
        /\ response[r].body.all_correct
        /\ response[r].body.overall_score = 1000

\* C3 amended: the same, for an expected phrase that normalizes to at least
\* one token.
C3_Containment ==
    \A r \in Requests :
        (/\ Returned(r)
         /\ split(normalize_text(request[r].expected_phrase)) # <<>>
         /\ AllExpectedHeard(r)) =>
            /\ response[r].body.all_correct
            /\ response[r].body.overall_score = 1000

\* an expected phrase of two words, both heard once, scored 100.0
C3_Witness ==
    /\ Returned(1)
    /\ request[1].expected_phrase = <<"B", " ", "a">>
    /\ response[1].body.transcribed_text = <<"a", " ", "B">>
    /\ response[1].body.all_correct
    /\ response[1].body.overall_score = 1000

\* C4: all_correct is true exactly when every element of word_evaluations
\* is correct, so it is true when word_evaluations is empty.
C4_AllCorrect ==
    \A r \in Requests : Returned(r) =>
        LET body == response[r].body
        IN  body.all_correct <=>
                \A i \in DOMAIN body.word_evaluations :
                    body.word_evaluations[i].correct

\* an empty word_evaluations with all_correct true
C4_Witness ==
    /\ Returned(1)
    /\ response[1].body.word_evaluations = <<>>
    /\ response[1].body.all_correct

ResponseFields ==
    {"transcribed_text", "expected_phrase", "word_evaluations",
     "overall_score", "all_correct"}

\* C5: a /transcribe request ends in exactly one outcome: a complete
\* TranscriptionResponse, when no step raised, or the 'Transcription failed'
\* error with status 500 and no payload, when the audio read, the provider
\* call or a later step raised; before it ends it has no outcome.
C5_OneOutcome ==
    \A r \in Requests : request[r].kind = "transcribe" =>
        IF pc[r] # "done" THEN response[r] = NoResponse
        ELSE IF raised[r] = "none"
        THEN /\ DOMAIN response[r] = {"status", "body"}
             /\ response[r].status = 200
             /\ DOMAIN response[r].body = ResponseFields
        ELSE response[r] =
                 [status |-> 500, detail |-> <<"Transcription failed: ", raised[r]>>]

\* the provider raised: the request ended in the 500 error
C5_Witness ==
    /\ pc[1] = "done"
    /\ request[1].kind = "transcribe"
    /\ raised[1] = "provider"
    /\ response[1].status = 500

----------------------------------------------------------------------------
(* Properties of the server, under Spec *)

\* C9: get_phrase(id) returns the catalog entry whose id is id when there is
\* one (ids 1 to 10) and signals 404 otherwise, never an entry with another
\* id; get_phrases returns the whole catalog in its order.
C9_PhraseLookup ==
    \A r \in Requests : pc[r] = "done" =>
        /\ request[r].kind = "phrase" =>
              LET id == request[r].phrase_id
              IN  IF id \in 1..10
                  THEN /\ response[r].status = 200
                       /\ response[r].body.id = id
                       /\ response[r].body \in Range(PORTUGUESE_PHRASES)
                  ELSE response[r] = [status |-> 404, detail |-> "Phrase not found"]
        /\ request[r].kind = "phrases" =>
              /\ response[r].status = 200
              /\ response[r].body = PORTUGUESE_PHRASES

\* id 999 answered 404 while id 10 is answered with its entry
C9_Witness ==
    /\ pc[1] = "done" /\ request[1].kind = "phrase"
    /\ request[1].phrase_id = 999 /\ response[1].status = 404
    /\ pc[2] = "done" /\ request[2].kind = "phrase"
    /\ request[2].phrase_id = 10 /\ response[2].body.phrase = "Você fala inglês?"

\* C10: under every interleaving of requests the catalog stays what it was,
\* and the response of each /transcribe request is the one its own expected
\* phrase and the provider's answer to its own call give when run alone.
C10_RequestScoped ==
    /\ catalog = PORTUGUESE_PHRASES
    /\ \A r \in Requests : (pc[r] = "done" /\ request[r].kind = "transcribe") =>
          response[r] = TranscribeOutcome(request[r].expected_phrase,
                                          raised[r] # "read", transcription[r])

\* two /transcribe requests in flight together, with different expected
\* phrases and different provider answers, each answered on its own
C10_Witness ==
    /\ pc[1] = "done" /\ pc[2] = "done"
    /\ request[1].kind = "transcribe" /\ request[2].kind = "transcribe"
    /\ request[1].expected_phrase # request[2].expected_phrase
    /\ transcription[1].kind = "text" /\ transcription[2].kind = "text"
    /\ transcription[1].text # transcription[2].text
    /\ response[1].body.all_correct /\ ~response[2].body.all_correct

====
